---- MODULE Spec2Model ----
(***************************************************************************)
(* A model of the World Bank abstract scraper (src/src/api_scraper.py):    *)
(* the identifier resolver extract_project_id, the fetcher                 *)
(* get_project_data, the field extractor extract_abstract, the normalizer  *)
(* _clean_text and the batch orchestrator process_csv.                     *)
(*                                                                         *)
(* Strings are sequences of chunks.  A chunk is a literal piece of text    *)
(* (a TLA+ string); the text a sequence stands for is the concatenation of *)
(* its chunks.  The chunk alphabets below are uniquely decodable and no    *)
(* chunk is a prefix of another, so Python's startswith, strip, split and  *)
(* re.search on the text are the same operations on the chunk sequence.    *)
(***************************************************************************)
EXTENDS Integers, Sequences, FiniteSets, TLC

VARIABLES
    mode,        \* which entry point runs: "clean", "extract", "resolve", "batch"
    input,       \* argument of the function under check (pure specifications)
    output,      \* its return value once called
    called,      \* whether the function has returned
    pc,          \* process_csv: position in the code
    config,      \* "ok" | "nofile" (input file missing) | "nocol" (locator column absent)
    csv_url,     \* the locator column of the input file: one text per row
    output_column, \* what output_column names: "new" (no such column in the file),
                 \* "existing" (a column of the file), "locator" (the url_column)
    df_url,      \* df[url_column]: one locator cell per row
    df_abstract, \* df[output_column]: <<>> until the column is created
    idx,         \* index of the row the loop is at (1-based)
    delay,       \* self.delay, the --delay argument (an int, possibly negative)
    url,         \* local: row[url_column] of the current row
    project_id,  \* local of extract_abstract: the resolved project id
    project_data,\* local of extract_abstract: what get_project_data returned
    abstract,    \* local: value returned by extract_abstract for the current row
    fetches,     \* per row: number of session.get calls issued
    delays,      \* per row: number of time.sleep(self.delay) calls
    outcome,     \* per row: what the upstream source answered ("none" when not asked)
    saved,       \* the rows written by df.to_csv, <<>> when nothing was written
    writes,      \* number of df.to_csv calls
    summary,     \* <<successful_extractions, total_urls>>, <<>> before the summary
    raised,      \* exception that left process_csv, "none" when none did
    caller,      \* "main" when main() calls process_csv, "direct" for a direct call
    session,     \* self.session: "none" before __init__, "open", "closed"
    interrupted_at, \* the position at which KeyboardInterrupt arrived, "none" if never
    exit_code    \* status of sys.exit / normal end of main(), -1 while running

vars == <<mode, input, output, called, pc, config, df_url, df_abstract, idx, delay,
          url, project_id, project_data, abstract, fetches, delays, outcome, saved,
          writes, summary, raised, caller, session, interrupted_at, exit_code,
          csv_url, output_column>>

\* the state around process_csv: main(), the input file it names and the
\* result column it asks for
mainVars == <<caller, session, interrupted_at, exit_code, csv_url, output_column>>

batchVars == <<pc, config, df_url, df_abstract, idx, delay, url, project_id,
               project_data, abstract, fetches, delays, outcome, saved, writes,
               summary, raised, caller, session, interrupted_at, exit_code,
               csv_url, output_column>>

-----------------------------------------------------------------------------
(* Bounds of the model                                                     *)

\* longest text (in chunks) given to _clean_text
MaxLen == 4
\* most keys one project mapping holds
MaxFields == 2
\* longest locator (in chunks) given to extract_project_id
MaxUrl == 6
\* most rows of an input table
MaxRows == 2

-----------------------------------------------------------------------------
(* Text                                                                    *)

\* a word of fifty characters that occurs in no boilerplate prefix
Y50 == "yyyyyyyyyyyyyyyyyyyyyyyyyyyyyyyyyyyyyyyyyyyyyyyyyy"

\* the whitespace chunks
Whitespace == {" ", "\n"}

\* the chunks texts are made of
TextChunks == {"Abstract", "Project", "Development Objective", "Description",
               ":", "*", "x", Y50} \cup Whitespace

\* len(text): the number of characters
RECURSIVE TextLen(_)
TextLen(t) == IF t = <<>> THEN 0 ELSE Len(Head(t)) + TextLen(Tail(t))

RECURSIVE LStrip(_)
LStrip(t) == IF t # <<>> /\ Head(t) \in Whitespace THEN LStrip(Tail(t)) ELSE t

RECURSIVE RStrip(_)
RStrip(t) ==
    IF t # <<>> /\ t[Len(t)] \in Whitespace THEN RStrip(SubSeq(t, 1, Len(t) - 1)) ELSE t

\* str.strip()
Strip(t) == RStrip(LStrip(t))

\* ' '.join(words) over the rest of a stripped text: every whitespace run
\* becomes one space
RECURSIVE JoinWords(_)
JoinWords(t) ==
    IF t = <<>> THEN <<>>
    ELSE IF Head(t) \in Whitespace
         THEN IF Tail(t) # <<>> /\ Head(Tail(t)) \in Whitespace
              THEN JoinWords(Tail(t))
              ELSE <<" ">> \o JoinWords(Tail(t))
         ELSE <<Head(t)>> \o JoinWords(Tail(t))

\* ' '.join(text.split())
CollapseWhitespace(t) == JoinWords(Strip(t))

\* text.startswith(prefix)
StartsWith(t, prefix) ==
    Len(prefix) <= Len(t) /\ SubSeq(t, 1, Len(prefix)) = prefix

\* prefixes_to_remove, in the order of the list
prefixes_to_remove ==
    << <<"Abstract", "*">>, <<"Abstract", ":">>, <<"Abstract">>,
       <<"Project", " ", "Abstract", ":">>, <<"Project", " ", "Abstract">>,
       <<"Project", " ", "Development Objective", ":">>,
       <<"Project", " ", "Development Objective">>,
       <<"Description", ":">>, <<"Description">> >>

\* text[len(prefix):].strip()
CutPrefix(t, prefix) == Strip(SubSeq(t, Len(prefix) + 1, Len(t)))

\* the loop over prefixes_to_remove: every prefix of the list is tried in
\* turn against the text as the earlier iterations left it
RECURSIVE RemovePrefixes(_, _)
RemovePrefixes(t, prefixes) ==
    IF prefixes = <<>> THEN t
    ELSE CHOOSE result \in
             {RemovePrefixes(IF StartsWith(text, Head(prefixes))
                             THEN CutPrefix(text, Head(prefixes)) ELSE text,
                             Tail(prefixes)) : text \in {t}} : TRUE

_clean_text(text) == RemovePrefixes(CollapseWhitespace(text), prefixes_to_remove)

\* all sequences over S of length at most n
SeqsUpTo(S, n) == UNION {[1..k -> S] : k \in 0..n}

-----------------------------------------------------------------------------
(* The normalizer on its own                                               *)

\* process_csv is not running
IdleBatch ==
    /\ pc = "idle" /\ config = "ok" /\ df_url = <<>> /\ df_abstract = <<>>
    /\ idx = 0 /\ delay = 0 /\ url = <<>> /\ project_id = <<>> /\ project_data = <<>>
    /\ abstract = <<>> /\ fetches = <<>> /\ delays = <<>>
    /\ outcome = <<>> /\ saved = <<>> /\ writes = 0 /\ summary = <<>>
    /\ raised = "none"
    /\ caller = "direct" /\ session = "none" /\ interrupted_at = "none"
    /\ exit_code = -1 /\ csv_url = <<>> /\ output_column = "new"

InitClean ==
    /\ mode = "clean"
    /\ input \in SeqsUpTo(TextChunks, MaxLen)
    /\ output = <<>>
    /\ called = FALSE
    /\ IdleBatch

CallCleanText ==
    /\ mode = "clean" /\ ~called
    /\ output' = _clean_text(input)
    /\ called' = TRUE
    /\ UNCHANGED <<mode, input>>
    /\ UNCHANGED batchVars

NextClean == CallCleanText

SpecClean == InitClean /\ [][NextClean]_vars

\* Claim C7: _clean_text is idempotent: cleaning a cleaned text changes nothing.
CleanTextIdempotent ==
    (mode = "clean" /\ called) => _clean_text(output) = output

\* the listed prefixes the whitespace-collapsed text starts with
MatchingPrefixes(t) ==
    {i \in 1..Len(prefixes_to_remove) : StartsWith(t, prefixes_to_remove[i])}

\* the longest of them
LongestMatching(t) ==
    CHOOSE i \in MatchingPrefixes(t) :
        \A j \in MatchingPrefixes(t) :
            TextLen(prefixes_to_remove[j]) <= TextLen(prefixes_to_remove[i])

\* Claim C8: _clean_text removes at most one prefix from the collapsed text,
\* the longest that matches, and returns the rest trimmed.
CleanTextStripsOneLongestPrefix ==
    (mode = "clean" /\ called) =>
        LET t == CollapseWhitespace(input) IN
        output = IF MatchingPrefixes(t) = {} THEN t
                 ELSE CutPrefix(t, prefixes_to_remove[LongestMatching(t)])

-----------------------------------------------------------------------------
(* The field extractor on its own                                          *)

\* abstract_fields, in the order of the list
abstract_fields ==
    <<"project_abstract", "abstract", "description", "summary",
      "project_description", "project_summary">>

\* the keys a project mapping of the model may hold
DataKeys == {abstract_fields[i] : i \in 1..Len(abstract_fields)} \cup {"pdo"}

\* the values a key may hold; <<>> is a falsy value (None or "")
FieldValues ==
    { <<>>, <<" ">>, <<"x">>, <<Y50>>, <<Y50, "x">>, <<Y50, "x", "x">>,
      <<" ", Y50, " ">>, <<"Abstract", ":", Y50>> }

\* the substantiveness threshold of `len(abstract) > 50`
MinAbstractLen == 50

\* a project mapping: a function from the keys present to their values
ProjectDicts ==
    UNION {[S -> FieldValues] : S \in {T \in SUBSET DataKeys : Cardinality(T) <= MaxFields}}

\* the loop over abstract_fields without its break: the scan goes on after a
\* field longer than the threshold
RECURSIVE ScanFieldsNoBreak(_, _, _)
ScanFieldsNoBreak(data, fields, found) ==
    IF fields = <<>> THEN found
    ELSE IF Head(fields) \in DOMAIN data /\ data[Head(fields)] # <<>>
         THEN ScanFieldsNoBreak(data, Tail(fields), Strip(data[Head(fields)]))
         ELSE ScanFieldsNoBreak(data, Tail(fields), found)

\* the loop over abstract_fields: `abstract` is assigned from every present,
\* truthy field until one is longer than the threshold
RECURSIVE ScanFields(_, _, _)
ScanFields(data, fields, found) ==
    IF fields = <<>> THEN found
    ELSE IF Head(fields) \in DOMAIN data /\ data[Head(fields)] # <<>>
         THEN LET stripped == Strip(data[Head(fields)]) IN
              IF TextLen(stripped) > MinAbstractLen
              THEN stripped
              ELSE ScanFields(data, Tail(fields), stripped)
         ELSE ScanFields(data, Tail(fields), found)

\* extract_abstract from the fetched project data on; `found` is the value
\* of `abstract` after the loop, computed once
ExtractFromProjectData(data) ==
    IF DOMAIN data = {} THEN <<>>
    ELSE CHOOSE result \in
             {IF found # <<>> THEN _clean_text(found) ELSE <<>> :
                 found \in {ScanFields(data, abstract_fields, <<>>)}} : TRUE

InitExtract ==
    /\ mode = "extract"
    /\ input \in ProjectDicts
    /\ output = <<>>
    /\ called = FALSE
    /\ IdleBatch

CallExtract ==
    /\ mode = "extract" /\ ~called
    /\ output' = ExtractFromProjectData(input)
    /\ called' = TRUE
    /\ UNCHANGED <<mode, input>>
    /\ UNCHANGED batchVars

NextExtract == CallExtract

SpecExtract == InitExtract /\ [][NextExtract]_vars

\* Claim C3: a non-empty abstract returned by extract_abstract is longer than
\* 50 characters after normalization.
AbstractExceedsThreshold ==
    (mode = "extract" /\ called /\ output # <<>>) => TextLen(output) > MinAbstractLen

\* Claim C4: when no listed field holds a text longer than 50 characters the
\* result is the empty string.
NoQualifyingFieldGivesEmpty ==
    (/\ mode = "extract" /\ called
     /\ \A i \in 1..Len(abstract_fields) :
            abstract_fields[i] \in DOMAIN input
                => TextLen(input[abstract_fields[i]]) <= MinAbstractLen)
        => output = <<>>

\* field i of the list is present and its stripped text exceeds the threshold
Qualifies(data, i) ==
    /\ abstract_fields[i] \in DOMAIN data
    /\ TextLen(Strip(data[abstract_fields[i]])) > MinAbstractLen

BlankWithoutProjectAbstract ==
    (mode = "extract" /\ called /\ "project_abstract" \notin DOMAIN input)
        => output = <<>>

-----------------------------------------------------------------------------
(* The identifier resolver on its own                                      *)

\* the chunks locators are made of
UrlChunks == {"/", "project-detail", "P", "7", "x"}

\* \d
Digits == {"7"}

\* the value None, as returned by extract_project_id and get_project_data
None == <<>>

\* the pattern /project-detail/(P\d+) matches with its first character at i
MatchesAt(u, i) ==
    /\ i + 4 <= Len(u)
    /\ u[i] = "/" /\ u[i + 1] = "project-detail" /\ u[i + 2] = "/"
    /\ u[i + 3] = "P" /\ u[i + 4] \in Digits

\* \d+ is greedy: the last index of the run of digits that starts at j
RECURSIVE DigitsEnd(_, _)
DigitsEnd(u, j) ==
    IF j + 1 <= Len(u) /\ u[j + 1] \in Digits THEN DigitsEnd(u, j + 1) ELSE j

\* re.search: the scan tries the pattern at each position from the left
RECURSIVE SearchFrom(_, _)
SearchFrom(u, i) ==
    IF i > Len(u) THEN None
    ELSE IF MatchesAt(u, i) THEN SubSeq(u, i + 3, DigitsEnd(u, i + 4))
         ELSE SearchFrom(u, i + 1)

\* re.match in place of re.search: the pattern anchored at the start
MatchAtStartOnly(u) ==
    IF MatchesAt(u, 1) THEN SubSeq(u, 4, DigitsEnd(u, 5)) ELSE None

extract_project_id(u) == SearchFrom(u, 1)

InitResolve ==
    /\ mode = "resolve"
    /\ input \in SeqsUpTo(UrlChunks, MaxUrl)
    /\ output = <<>>
    /\ called = FALSE
    /\ IdleBatch

CallResolve ==
    /\ mode = "resolve" /\ ~called
    /\ output' = extract_project_id(input)
    /\ called' = TRUE
    /\ UNCHANGED <<mode, input>>
    /\ UNCHANGED batchVars

NextResolve == CallResolve

SpecResolve == InitResolve /\ [][NextResolve]_vars

\* the locator holds, from position i on, the path segment project-detail
\* followed by a code: the letter P and at least one digit
CodeEmbeddedAt(u, i) ==
    /\ i + 4 <= Len(u)
    /\ SubSeq(u, i, i + 3) = <<"/", "project-detail", "/", "P">>
    /\ u[i + 4] \in Digits

\* code is the letter P and the whole run of digits that follows position i+3
IsCodeAt(u, i, code) ==
    /\ Len(code) >= 2
    /\ code = SubSeq(u, i + 3, i + 2 + Len(code))
    /\ \A k \in 2..Len(code) : code[k] \in Digits
    /\ (i + 3 + Len(code) <= Len(u) => u[i + 3 + Len(code)] \notin Digits)

\* Claim C9: for a locator that embeds the key pattern extract_project_id
\* returns exactly the embedded code (the first one), and for every other
\* locator it returns None; it touches nothing else (no fetch is issued).
ResolverExtractsEmbeddedCode ==
    (mode = "resolve" /\ called) =>
        /\ (\A i \in 1..Len(input) : ~CodeEmbeddedAt(input, i)) => output = None
        /\ \A i \in 1..Len(input) :
              (CodeEmbeddedAt(input, i) /\ \A j \in 1..(i - 1) : ~CodeEmbeddedAt(input, j))
                  => IsCodeAt(input, i, output)
        /\ fetches = <<>>

\* a code found in a locator that does not start with the pattern
ResolverExtractsEmbeddedCodeWitness ==
    /\ mode = "resolve" /\ called
    /\ input # <<>> /\ input[1] # "/"
    /\ output = <<"P", "7">>

-----------------------------------------------------------------------------
(* The batch orchestrator process_csv                                      *)

\* a cell of the locator column as pd.read_csv hands it over: NaN for an
\* empty cell, a str in a column of dtype object, a number in a numeric column
NaN == [kind |-> "nan", text |-> <<>>]
Num == [kind |-> "num", text |-> <<>>]
Str(t) == [kind |-> "str", text |-> t]

\* the locators of the model: a blank one, one without a project code, one
\* with the code P7
BlankUrl == <<" ">>
UrlNoCode == <<"/", "x">>
UrlWithCode == <<"/", "project-detail", "/", "P", "7">>

\* pd.read_csv infers one dtype per column: all cells of a column are str or
\* NaN (object), or all are numbers or NaN (int64/float64)
ObjectCells == {NaN, Str(BlankUrl), Str(UrlNoCode), Str(UrlWithCode), Str(<<"7">>)}
NumericCells == {NaN, Num}
LocatorColumns ==
    UNION {[1..n -> ObjectCells] \cup [1..n -> NumericCells] : n \in 0..MaxRows}

\* the texts a cell of the locator column may hold in the input file; Num is
\* the number read from the text "7"
RawCells == {<<>>, <<"NA">>, BlankUrl, UrlNoCode, UrlWithCode, <<"7">>}
RawColumns == UNION {[1..n -> RawCells] : n \in 0..MaxRows}

\* pd.read_csv with its default na_values: the empty field and "NA" (among
\* others) are read as NaN
NaValues == {<<>>, <<"NA">>}

\* the parser reads the text as a number
IsNumber(text) == Len(text) = 1 /\ text[1] \in Digits

\* pd.read_csv on one column: NaN for the missing values; numbers when every
\* other cell is a number, else the texts unchanged
read_csv(column) ==
    LET numeric == \A i \in DOMAIN column :
                       column[i] \in NaValues \/ IsNumber(column[i])
    IN  [i \in DOMAIN column |->
            IF column[i] \in NaValues THEN NaN
            ELSE IF numeric THEN Num
            ELSE Str(column[i])]

\* df.to_csv on one column: NaN is written as the empty field, a str as it
\* is, a number by its repr: "7" in an int64 column, "7.0" in a float64
\* column (the dtype of a numeric column that holds a NaN)
to_csv(column) ==
    LET float == \E i \in DOMAIN column : column[i] = NaN
    IN  [i \in DOMAIN column |->
            IF column[i].kind = "nan" THEN <<>>
            ELSE IF column[i].kind = "str" THEN column[i].text
            ELSE IF float THEN <<"7", ".", "0">> ELSE <<"7">>]

\* the project mappings the upstream source of the model may hold
SampleData ==
    { [f \in {"project_abstract"} |-> <<Y50, "x">>],
      [f \in {"project_abstract", "description"} |->
          IF f = "project_abstract" THEN <<" ", Y50, " ">> ELSE <<Y50, "x", "x">>],
      [f \in {"project_abstract"} |-> <<"x">>],
      [f \in {"description", "pdo"} |-> <<Y50, "x", "x">>],
      <<>> }

\* the ids the envelope of the model may list
EnvelopeIds == {<<"P", "7">>, <<"P", "7", "7">>}

\* what one session.get can lead to: an exception in session.get, in
\* raise_for_status or in response.json, or a decoded JSON document with or
\* without the key 'projects'
Answer(kind, projects) == [kind |-> kind, projects |-> projects]
NotAsked == Answer("none", <<>>)
FailureKinds == {"transport", "status", "json"}
Answers ==
    {Answer(k, <<>>) : k \in FailureKinds}
    \cup {Answer("no_projects", <<>>), Answer("projects", <<>>)}
    \cup {Answer("projects", [id \in {i} |-> d]) : i \in EnvelopeIds, d \in SampleData}

\* get_project_data with the failure swallowed the wrong way: the handler
\* hands back a stale, non-empty mapping
get_project_data_stale(id, answer) ==
    IF answer.kind = "projects" /\ id \in DOMAIN answer.projects
    THEN answer.projects[id]
    ELSE [f \in {"project_abstract"} |-> <<Y50, "x">>]

\* get_project_data without the test `project_id in data['projects']`: the
\* first project of the envelope is handed back whatever its id
get_project_data_first(id, answer) ==
    IF answer.kind = "projects" /\ DOMAIN answer.projects # {}
    THEN answer.projects[CHOOSE k \in DOMAIN answer.projects : TRUE]
    ELSE <<>>

\* get_project_data: the project's mapping, None on any exception and None
\* when the envelope does not list the id
get_project_data(id, answer) ==
    IF answer.kind = "projects" /\ id \in DOMAIN answer.projects
    THEN answer.projects[id]
    ELSE None

N == Len(df_url)

InitBatch ==
    /\ mode = "batch"
    /\ input = <<>> /\ output = <<>> /\ called = FALSE
    /\ caller \in {"main", "direct"}
    /\ pc = IF caller = "main" THEN "main" ELSE "start"
    /\ session = IF caller = "main" THEN "none" ELSE "open"
    /\ interrupted_at = "none"
    /\ exit_code = -1
    /\ config \in {"ok", "nofile", "nocol"}
    /\ output_column \in {"new", "existing", "locator"}
    /\ caller = "main" => output_column # "locator"
    /\ csv_url \in RawColumns
    /\ config = "nofile" => csv_url = <<>>
    /\ df_url = read_csv(csv_url)
    /\ df_url \in LocatorColumns
    /\ df_abstract = <<>>
    /\ idx = 0
    /\ delay \in {-1, 0, 1}
    /\ url = NaN /\ project_id = None /\ project_data = None /\ abstract = <<>>
    /\ fetches = [i \in 1..N |-> 0]
    /\ delays = [i \in 1..N |-> 0]
    /\ outcome = [i \in 1..N |-> NotAsked]
    /\ saved = <<>> /\ writes = 0 /\ summary = <<>>
    /\ raised = "none"

\* main(), up to the call of process_csv: a missing input file ends the
\* process with status 1 before the scraper is constructed; otherwise
\* WorldBankAPIScraper.__init__ opens the requests.Session
MainStart ==
    /\ mode = "batch" /\ pc = "main"
    /\ IF config = "nofile"
       THEN pc' = "exited" /\ exit_code' = 1 /\ UNCHANGED session
       ELSE pc' = "start" /\ session' = "open" /\ UNCHANGED exit_code
    /\ UNCHANGED <<mode, input, output, called, config, df_url, df_abstract, idx,
                   delay, url, project_id, project_data, abstract, fetches, delays,
                   outcome, saved, writes, summary, raised, caller, interrupted_at,
                   csv_url, output_column>>

\* the positions inside process_csv
Running ==
    {"start", "check", "init", "loop", "resolve", "fetch", "fields", "store",
     "except", "save", "summary"}

\* KeyboardInterrupt is not an Exception: neither the per-record except nor
\* the outer except of process_csv catches it, so it unwinds process_csv
\* from wherever it arrives; df, a local, is dropped with the frame
Interrupt ==
    /\ mode = "batch" /\ pc \in Running
    /\ interrupted_at' = pc
    /\ pc' = "interrupted"
    /\ UNCHANGED <<mode, input, output, called, config, df_url, df_abstract, idx,
                   delay, url, project_id, project_data, abstract, fetches, delays,
                   outcome, saved, writes, summary, raised, caller, session,
                   exit_code, csv_url, output_column>>

\* the end of main(): the output path is printed and main returns, or
\* `except KeyboardInterrupt` / `except Exception` call sys.exit(1); the
\* session is never closed
MainExit ==
    /\ mode = "batch" /\ caller = "main"
    /\ pc \in {"done", "raised", "interrupted"}
    /\ exit_code' = IF pc = "done" THEN 0 ELSE 1
    /\ pc' = "exited"
    /\ UNCHANGED <<mode, input, output, called, config, df_url, df_abstract, idx,
                   delay, url, project_id, project_data, abstract, fetches, delays,
                   outcome, saved, writes, summary, raised, caller, session,
                   interrupted_at, csv_url, output_column>>

\* the outer `except Exception: ... raise`
Raise(exception) ==
    /\ pc' = "raised"
    /\ raised' = exception

\* df = pd.read_csv(input_file)
ReadCsv ==
    /\ mode = "batch" /\ pc = "start"
    /\ IF config = "nofile"
       THEN Raise("FileNotFoundError")
       ELSE pc' = "check" /\ UNCHANGED raised
    /\ UNCHANGED <<mainVars, mode, input, output, called, config, df_url, df_abstract, idx,
                   delay, url, project_id, project_data, abstract, fetches, delays,
                   outcome, saved, writes, summary>>

\* the column check left out: the run goes on without the locator column
CheckColumnLax ==
    /\ mode = "batch" /\ pc = "check"
    /\ pc' = "init"
    /\ UNCHANGED <<mainVars, mode, input, output, called, config, df_url, df_abstract,
                   idx, delay, url, project_id, project_data, abstract, fetches,
                   delays, outcome, saved, writes, summary, raised>>

\* if url_column not in df.columns: raise ValueError
CheckColumn ==
    /\ mode = "batch" /\ pc = "check"
    /\ IF config = "nocol"
       THEN Raise("ValueError")
       ELSE pc' = "init" /\ UNCHANGED raised
    /\ UNCHANGED <<mainVars, mode, input, output, called, config, df_url, df_abstract, idx,
                   delay, url, project_id, project_data, abstract, fetches, delays,
                   outcome, saved, writes, summary>>

\* the result column created without touching the locator column
InitColumnKeepLocator ==
    /\ mode = "batch" /\ pc = "init"
    /\ df_abstract' = [i \in 1..N |-> <<>>]
    /\ idx' = 1
    /\ pc' = "loop"
    /\ UNCHANGED <<mainVars, mode, input, output, called, config, df_url, delay, url,
                   project_id, project_data, abstract, fetches, delays, outcome,
                   saved, writes, summary, raised>>

\* df[output_column] = "" and the start of the loop; when output_column is
\* the url_column the assignment replaces every locator by ""
InitColumn ==
    /\ mode = "batch" /\ pc = "init"
    /\ df_abstract' = [i \in 1..N |-> <<>>]
    /\ df_url' = IF output_column = "locator" THEN [i \in 1..N |-> Str(<<>>)] ELSE df_url
    /\ idx' = 1
    /\ pc' = "loop"
    /\ UNCHANGED <<mainVars, mode, input, output, called, config, delay, url,
                   project_id, project_data, abstract, fetches, delays, outcome,
                   saved, writes, summary, raised>>

\* the blank test without strip(): only NaN and "" count as blank
IsBlankNoStrip(cell) == cell.kind = "nan" \/ cell.text = <<>>

\* pd.isna(url) or not url.strip(), for a cell that has a strip method
IsBlank(cell) == cell.kind = "nan" \/ Strip(cell.text) = <<>>

\* the loop is exhausted
LoopEnd ==
    /\ mode = "batch" /\ pc = "loop" /\ idx > N
    /\ pc' = "save"
    /\ UNCHANGED <<mainVars, mode, input, output, called, config, df_url, df_abstract, idx,
                   delay, url, project_id, project_data, abstract, fetches, delays,
                   outcome, saved, writes, summary, raised>>

\* a blank locator met by a loop that does not move on to the next row
SkipBlankStay ==
    /\ mode = "batch" /\ pc = "loop" /\ idx <= N
    /\ df_url[idx].kind # "num" /\ IsBlank(df_url[idx])
    /\ url' = df_url[idx]
    /\ UNCHANGED <<mainVars, mode, input, output, called, pc, config, df_url, df_abstract,
                   idx, delay, project_id, project_data, abstract, fetches, delays,
                   outcome, saved, writes, summary, raised>>

\* url = row[url_column]; a missing or blank locator: continue
SkipBlank ==
    /\ mode = "batch" /\ pc = "loop" /\ idx <= N
    /\ df_url[idx].kind # "num" /\ IsBlank(df_url[idx])
    /\ url' = df_url[idx]
    /\ idx' = idx + 1
    /\ UNCHANGED <<mainVars, mode, input, output, called, pc, config, df_url, df_abstract,
                   delay, project_id, project_data, abstract, fetches, delays,
                   outcome, saved, writes, summary, raised>>

\* url = row[url_column]; a number is not NaN and has no strip method: the
\* AttributeError is raised outside the per-record try and leaves process_csv
BlankCheckRaises ==
    /\ mode = "batch" /\ pc = "loop" /\ idx <= N
    /\ df_url[idx].kind = "num"
    /\ url' = df_url[idx]
    /\ Raise("AttributeError")
    /\ UNCHANGED <<mainVars, mode, input, output, called, config, df_url, df_abstract, idx,
                   delay, project_id, project_data, abstract, fetches, delays,
                   outcome, saved, writes, summary>>

\* url = row[url_column]; a non-blank locator enters the per-record try
BeginRecord ==
    /\ mode = "batch" /\ pc = "loop" /\ idx <= N
    /\ df_url[idx].kind = "str" /\ ~IsBlank(df_url[idx])
    /\ url' = df_url[idx]
    /\ pc' = "resolve"
    /\ UNCHANGED <<mainVars, mode, input, output, called, config, df_url, df_abstract, idx,
                   delay, project_id, project_data, abstract, fetches, delays,
                   outcome, saved, writes, summary, raised>>

\* the finally clause of extract_abstract: time.sleep(self.delay), which
\* raises ValueError for a negative delay; the exception replaces the return
\* value and reaches the per-record except of process_csv
SleepThenReturn(value) ==
    IF delay < 0
    THEN /\ pc' = "except"
         /\ UNCHANGED <<abstract, delays>>
    ELSE /\ pc' = "store"
         /\ abstract' = value
         /\ delays' = [delays EXCEPT ![idx] = @ + 1]

\* extract_abstract, up to the fetch: project_id = self.extract_project_id(url)
Resolve ==
    /\ mode = "batch" /\ pc = "resolve"
    /\ project_id' = extract_project_id(url.text)
    /\ IF project_id' = None
       THEN SleepThenReturn(<<>>)
       ELSE pc' = "fetch" /\ UNCHANGED <<abstract, delays>>
    /\ UNCHANGED <<mainVars, mode, input, output, called, config, df_url, df_abstract, idx,
                   delay, url, project_data, fetches, outcome, saved, writes,
                   summary, raised>>

\* the fetch with a prefetch: the request of the next row is sent as well
FetchAhead ==
    /\ mode = "batch" /\ pc = "fetch"
    /\ \E answer \in Answers :
          /\ outcome' = [outcome EXCEPT ![idx] = answer]
          /\ project_data' = get_project_data(project_id, answer)
    /\ fetches' = [i \in 1..N |->
                      IF i = idx \/ i = idx + 1 THEN fetches[i] + 1 ELSE fetches[i]]
    /\ pc' = "fields"
    /\ UNCHANGED <<mainVars, mode, input, output, called, config, df_url, df_abstract, idx,
                   delay, url, project_id, abstract, delays, saved, writes,
                   summary, raised>>

\* get_project_data with one retry: a failed session.get is sent again
FetchWithRetry ==
    /\ mode = "batch" /\ pc = "fetch"
    /\ \E answer \in Answers :
          /\ outcome' = [outcome EXCEPT ![idx] = answer]
          /\ project_data' = get_project_data(project_id, answer)
          /\ fetches' = [fetches EXCEPT
                            ![idx] = @ + (IF answer.kind \in FailureKinds THEN 2 ELSE 1)]
    /\ pc' = "fields"
    /\ UNCHANGED <<mainVars, mode, input, output, called, config, df_url, df_abstract, idx,
                   delay, url, project_id, abstract, delays, saved, writes,
                   summary, raised>>

\* project_data = self.get_project_data(project_id): one session.get
Fetch ==
    /\ mode = "batch" /\ pc = "fetch"
    /\ \E answer \in Answers :
          /\ outcome' = [outcome EXCEPT ![idx] = answer]
          /\ project_data' = get_project_data(project_id, answer)
    /\ fetches' = [fetches EXCEPT ![idx] = @ + 1]
    /\ pc' = "fields"
    /\ UNCHANGED <<mainVars, mode, input, output, called, config, df_url, df_abstract, idx,
                   delay, url, project_id, abstract, delays, saved, writes,
                   summary, raised>>

\* the rest of extract_abstract: the scan of the fields, _clean_text, the
\* finally clause
ExtractFields ==
    /\ mode = "batch" /\ pc = "fields"
    /\ SleepThenReturn(ExtractFromProjectData(project_data))
    /\ UNCHANGED <<mainVars, mode, input, output, called, config, df_url, df_abstract, idx,
                   delay, url, project_id, project_data, fetches, outcome, saved,
                   writes, summary, raised>>

\* the result written into the row and into every row before it
StoreResultBroadcast ==
    /\ mode = "batch" /\ pc = "store"
    /\ df_abstract' = [i \in 1..N |-> IF i <= idx THEN abstract ELSE df_abstract[i]]
    /\ idx' = idx + 1
    /\ pc' = "loop"
    /\ UNCHANGED <<mainVars, mode, input, output, called, config, df_url, delay, url,
                   project_id, project_data, abstract, fetches, delays, outcome,
                   saved, writes, summary, raised>>

\* the result written and the table saved after every record
StoreResultAndSave ==
    /\ mode = "batch" /\ pc = "store"
    /\ df_abstract' = [df_abstract EXCEPT ![idx] = abstract]
    /\ saved' = [i \in 1..N |-> [url |-> to_csv(df_url)[i], abstract |-> df_abstract'[i]]]
    /\ writes' = writes + 1
    /\ idx' = idx + 1
    /\ pc' = "loop"
    /\ UNCHANGED <<mainVars, mode, input, output, called, config, df_url, delay, url,
                   project_id, project_data, abstract, fetches, delays, outcome,
                   summary, raised>>

\* df.at[index, output_column] = abstract
StoreResult ==
    /\ mode = "batch" /\ pc = "store"
    /\ df_abstract' = [df_abstract EXCEPT ![idx] = abstract]
    /\ idx' = idx + 1
    /\ pc' = "loop"
    /\ UNCHANGED <<mainVars, mode, input, output, called, config, df_url, delay, url,
                   project_id, project_data, abstract, fetches, delays, outcome,
                   saved, writes, summary, raised>>

\* except Exception as e: df.at[index, output_column] = ""
RecordFailed ==
    /\ mode = "batch" /\ pc = "except"
    /\ df_abstract' = [df_abstract EXCEPT ![idx] = <<>>]
    /\ idx' = idx + 1
    /\ pc' = "loop"
    /\ UNCHANGED <<mainVars, mode, input, output, called, config, df_url, delay, url,
                   project_id, project_data, abstract, fetches, delays, outcome,
                   saved, writes, summary, raised>>

\* df.to_csv(output_file, index=False)
SaveCsv ==
    /\ mode = "batch" /\ pc = "save"
    /\ saved' = [i \in 1..N |-> [url |-> to_csv(df_url)[i], abstract |-> df_abstract[i]]]
    /\ writes' = writes + 1
    /\ pc' = "summary"
    /\ UNCHANGED <<mainVars, mode, input, output, called, config, df_url, df_abstract, idx,
                   delay, url, project_id, project_data, abstract, fetches, delays,
                   outcome, summary, raised>>

\* the summary counting the rows for which a request was sent, not the rows
\* with a non-empty result
SummarizeAttempted ==
    /\ mode = "batch" /\ pc = "summary"
    /\ summary' = <<Cardinality({i \in 1..N : outcome[i] # NotAsked}), N>>
    /\ pc' = "done"
    /\ UNCHANGED <<mainVars, mode, input, output, called, config, df_url, df_abstract, idx,
                   delay, url, project_id, project_data, abstract, fetches, delays,
                   outcome, saved, writes, raised>>

\* successful_extractions = (df[output_column] != "").sum(); return output_file
Summarize ==
    /\ mode = "batch" /\ pc = "summary"
    /\ summary' = <<Cardinality({i \in 1..N : df_abstract[i] # <<>>}), N>>
    /\ pc' = "done"
    /\ UNCHANGED <<mainVars, mode, input, output, called, config, df_url, df_abstract, idx,
                   delay, url, project_id, project_data, abstract, fetches, delays,
                   outcome, saved, writes, raised>>

Next ==
    \/ MainStart \/ Interrupt \/ MainExit
    \/ ReadCsv \/ CheckColumn \/ InitColumn
    \/ LoopEnd \/ SkipBlank \/ BlankCheckRaises \/ BeginRecord
    \/ Resolve \/ Fetch \/ ExtractFields \/ StoreResult \/ RecordFailed
    \/ SaveCsv \/ Summarize

Init == InitBatch

Spec == Init /\ [][Next]_vars

-----------------------------------------------------------------------------
(* Properties of process_csv                                               *)

\* the fetch of row k ended in an exception inside get_project_data
FetchFailed(k) == outcome[k].kind \in FailureKinds

\* what row i yields when it is processed on its own: decided by its own
\* locator, the answer to its own request and the configured delay
IsolatedResult(i) ==
    IF df_url[i].kind # "str" \/ IsBlank(df_url[i]) \/ delay < 0 THEN <<>>
    ELSE IF extract_project_id(df_url[i].text) = None THEN <<>>
    ELSE ExtractFromProjectData(
             get_project_data(extract_project_id(df_url[i].text), outcome[i]))

\* Claim C1: batch containment.  When the fetch of row k fails, process_csv
\* does not raise, the output written has all N rows, row k is empty, every
\* other row holds what it yields on its own, and the summary counts the
\* non-empty rows other than k out of N.
BatchContainment ==
    mode = "batch" =>
        \A k \in 1..N :
            FetchFailed(k) =>
                /\ pc # "raised"
                /\ pc = "done" =>
                      /\ Len(saved) = N
                      /\ saved[k].abstract = <<>>
                      /\ \A i \in (1..N) \ {k} : saved[i].abstract = IsolatedResult(i)
                      /\ summary =
                            <<Cardinality({i \in (1..N) \ {k} : saved[i].abstract # <<>>}), N>>

\* a finished run in which a fetch failed and a later row got its abstract
BatchContainmentWitness ==
    /\ mode = "batch" /\ pc = "done"
    /\ \E k, i \in 1..N :
          /\ k < i /\ FetchFailed(k)
          /\ saved[k].abstract = <<>> /\ saved[i].abstract # <<>>
          /\ summary = <<1, N>>

\* Claim C2: once the locator column is validated no failure in the handling
\* of a record leaves process_csv: it raises only for a configuration error,
\* before the first record.
OnlyConfigurationErrorsRaise ==
    (mode = "batch" /\ pc = "raised") =>
        /\ raised \in {"FileNotFoundError", "ValueError"}
        /\ config # "ok"
        /\ idx = 0

\* the cell is neither missing nor blank and holds no project code
NonBlankNoCode(cell) ==
    \/ cell.kind = "num"
    \/ cell.kind = "str" /\ ~IsBlank(cell) /\ extract_project_id(cell.text) = None

\* Claim C10: a row whose locator is non-blank and holds no project code
\* causes no fetch and no exception; the run ends with the row in the output,
\* its result empty, and the row counted in the summary's total.
NoCodeRowLeftEmpty ==
    (mode = "batch" /\ pc \in {"done", "raised"}) =>
        \A i \in 1..N :
            NonBlankNoCode(df_url[i]) =>
                /\ pc = "done" /\ raised = "none"
                /\ fetches[i] = 0
                /\ Len(saved) = N /\ saved[i].abstract = <<>>
                /\ summary[2] = N

\* the request of row i was answered, and the answer is one of the four
\* fetch failures: an exception in session.get, in raise_for_status or in
\* response.json, or an envelope that does not list the requested id
FetchMissed(i) ==
    \/ outcome[i].kind \in FailureKinds
    \/ outcome[i].kind = "no_projects"
    \/ /\ outcome[i].kind = "projects"
       /\ extract_project_id(df_url[i].text) \notin DOMAIN outcome[i].projects

ConfigurationErrorsFailFast ==
    (mode = "batch" /\ config # "ok") =>
        /\ pc \in {"main", "start", "check", "raised", "interrupted", "exited"}
        /\ config = "nofile" => pc # "check"
        /\ idx = 0 /\ df_abstract = <<>>
        /\ writes = 0 /\ saved = <<>> /\ summary = <<>>
        /\ \A i \in 1..N : fetches[i] = 0 /\ delays[i] = 0
        /\ pc = "raised" =>
              raised = IF config = "nofile" THEN "FileNotFoundError" ELSE "ValueError"
        /\ pc = "exited" => exit_code = 1

\* main() has exited with status 1 over a table whose rows hold a locator
\* with a project code under another column name
ConfigurationErrorsFailFastWitness ==
    /\ mode = "batch" /\ config = "nocol" /\ caller = "main"
    /\ pc = "exited" /\ exit_code = 1 /\ raised = "ValueError"
    /\ interrupted_at = "none"
    /\ \E i \in 1..N : df_url[i] = Str(UrlWithCode)

\* Claim C13: when process_csv returns, the output holds exactly the N
\* input rows in input order, and in every row the fields other than the
\* result (here the locator) have the value they had in the input file.
OutputKeepsInputRows ==
    (mode = "batch" /\ pc \in {"done", "exited"} /\ writes > 0) =>
        /\ Len(saved) = Len(csv_url)
        /\ \A i \in 1..Len(saved) : saved[i].url = csv_url[i]

\* the positions inside the processing of one record
MidRecord == {"resolve", "fetch", "fields", "store", "except"}

\* Claim C14: a KeyboardInterrupt takes effect only between records; the
\* results of the k records processed before it are in the result set the
\* run leaves behind, and the process exits with a non-zero status.
InterruptionKeepsProcessedRows ==
    (mode = "batch" /\ interrupted_at # "none") =>
        /\ interrupted_at \notin MidRecord
        /\ \A i \in 1..N :
              (i < idx /\ df_abstract # <<>>) =>
                  /\ Len(saved) >= i
                  /\ saved[i].abstract = df_abstract[i]
        /\ pc = "exited" => exit_code = 1

\* the run is over: process_csv has returned or raised to a direct caller,
\* or main() has exited
RunEnded ==
    \/ pc = "exited"
    \/ caller = "direct" /\ pc \in {"done", "raised", "interrupted"}

\* Claim C15: the client acquired at the start of the run (self.session) is
\* released on every exit path before the run ends.
ClientReleasedOnEveryExit ==
    (mode = "batch" /\ RunEnded) => session # "open"

\* row i has a locator with a project code and the source answered with that
\* code mapped to a project_abstract of more than 50 characters
HasLongProjectAbstract(i) ==
    /\ df_url[i].kind = "str"
    /\ extract_project_id(df_url[i].text) # None
    /\ outcome[i].kind = "projects"
    /\ extract_project_id(df_url[i].text) \in DOMAIN outcome[i].projects
    /\ LET data == outcome[i].projects[extract_project_id(df_url[i].text)]
       IN  /\ "project_abstract" \in DOMAIN data
           /\ TextLen(data["project_abstract"]) > MinAbstractLen

\* Claim C16: for every record whose locator holds a project code and whose
\* response maps that code to a project_abstract of more than 50 characters,
\* the result in the output is _clean_text of that project_abstract.
EndToEndSuccess ==
    (mode = "batch" /\ writes > 0) =>
        \A i \in 1..N :
            HasLongProjectAbstract(i) =>
                saved[i].abstract =
                    _clean_text(outcome[i].projects[
                        extract_project_id(df_url[i].text)]["project_abstract"])

\* Claim C17: the summary reports the number of rows with a non-empty result
\* in the output written, out of the number N of input rows.
SummaryCountsNonEmpty ==
    (mode = "batch" /\ summary # <<>>) =>
        /\ writes = 1
        /\ summary = <<Cardinality({i \in 1..Len(saved) : saved[i].abstract # <<>>}),
                       Len(csv_url)>>

\* a finished run of two rows, one fetched in vain and one with an abstract
SummaryCountsNonEmptyWitness ==
    /\ mode = "batch" /\ pc = "done" /\ N = 2
    /\ summary = <<1, 2>>
    /\ \E i \in 1..N : fetches[i] = 1 /\ saved[i].abstract = <<>>

\* a locator that is missing or holds nothing but whitespace
MissingOrBlank(cell) ==
    \/ cell.kind = "nan"
    \/ cell.kind = "str" /\ \A k \in 1..Len(cell.text) : cell.text[k] \in Whitespace

\* Claim C18: every result is "" before the first record is processed, and
\* a record with a missing or blank locator is skipped: its result stays
\* "", it is never resolved, fetched or delayed, and it does not stop the
\* loop.
BlankRowsSkipped ==
    mode = "batch" =>
        /\ df_abstract # <<>> =>
              /\ Len(df_abstract) = N
              /\ \A i \in 1..N : i >= idx => df_abstract[i] = <<>>
        /\ \A i \in 1..N :
              MissingOrBlank(df_url[i]) =>
                  /\ fetches[i] = 0 /\ delays[i] = 0 /\ outcome[i] = NotAsked
                  /\ df_abstract # <<>> => df_abstract[i] = <<>>
                  /\ writes > 0 => saved[i].abstract = <<>>
                  /\ i = idx =>
                        /\ pc \notin MidRecord /\ interrupted_at \notin MidRecord
                        /\ raised = "none"

\* a finished run in which a whitespace-only locator was skipped and the row
\* after it got an abstract
BlankRowsSkippedWitness ==
    /\ mode = "batch" /\ pc = "done"
    /\ \E i, j \in 1..N :
          /\ i < j /\ df_url[i] = Str(BlankUrl)
          /\ saved[i].abstract = <<>> /\ saved[j].abstract # <<>>

\* Claim C19: after every fetch attempt, succeeded or failed, the configured
\* delay is applied exactly once before the next record is processed.
DelayAppliedOncePerFetch ==
    mode = "batch" =>
        \A i \in 1..N : (fetches[i] >= 1 /\ i < idx) => delays[i] = 1

\* Claim C20: no retries.  At most one request per record: exactly one for a
\* processed record with a resolvable locator, none for a blank or an
\* unresolvable one; a failed fetch is not repeated and gives the empty
\* result.
NoRetries ==
    mode = "batch" =>
        \A i \in 1..N :
            /\ fetches[i] <= 1
            /\ fetches[i] = 1 <=> outcome[i] # NotAsked
            /\ i < idx =>
                  fetches[i] =
                      IF df_url[i].kind = "str"
                         /\ extract_project_id(df_url[i].text) # None
                      THEN 1 ELSE 0
            /\ (i < idx /\ outcome[i].kind \in FailureKinds) => df_abstract[i] = <<>>

\* a finished run with a transport failure in one row, asked once
NoRetriesWitness ==
    /\ mode = "batch" /\ pc = "done"
    /\ \E i \in 1..N :
          /\ outcome[i].kind = "transport" /\ fetches[i] = 1
          /\ saved[i].abstract = <<>>

\* Claim C22: strictly sequential processing.  Records are handled one at
\* a time in ascending order: nothing has been asked, delayed or written for
\* a record after the current one, and every record before the current one
\* is finished, so at most one record is in flight.
StrictlySequential ==
    mode = "batch" =>
        /\ pc \in MidRecord => idx \in 1..N
        /\ \A i \in 1..N :
              i > idx =>
                  /\ fetches[i] = 0 /\ delays[i] = 0 /\ outcome[i] = NotAsked
                  /\ df_abstract # <<>> => df_abstract[i] = <<>>
        /\ \A i \in 1..N :
              (i = idx /\ pc \in {"loop", "resolve", "fetch"}) =>
                  fetches[i] = 0 /\ outcome[i] = NotAsked

\* the second record is about to be fetched, the first one has its result
StrictlySequentialWitness ==
    /\ mode = "batch" /\ pc = "fetch" /\ idx = 2
    /\ fetches[1] = 1 /\ df_abstract[1] # <<>> /\ fetches[2] = 0

\* Claim C27: record lifecycle.  After the initialization to "" a step of
\* process_csv changes the result of the current record only and then moves
\* on to the next record for good, so each result is written at most once
\* and never changed by a later record; the number of records never changes.
RecordLifecycle ==
    [][(mode = "batch" /\ df_abstract # <<>>) =>
          /\ Len(df_abstract') = Len(df_abstract)
          /\ Len(df_url') = Len(df_url)
          /\ idx' \in {idx, idx + 1}
          /\ \A i \in 1..N :
                df_abstract'[i] # df_abstract[i] => (i = idx /\ idx' = idx + 1)]_vars

\* a finished run of two records with two different abstracts
RecordLifecycleWitness ==
    /\ mode = "batch" /\ pc = "done" /\ N = 2
    /\ df_abstract[1] # <<>> /\ df_abstract[2] # <<>>
    /\ df_abstract[1] # df_abstract[2]

\* Claim C28: the output file is written at most once, only after the last
\* record has been handled, and the summary comes only after that write; when
\* process_csv raises or is interrupted before the loop has ended, nothing
\* has been written, whatever number of records were processed.
OutputWrittenOnceAtEnd ==
    mode = "batch" =>
        /\ writes <= 1
        /\ writes = 0 => saved = <<>>
        /\ writes = 1 => (idx = N + 1 /\ raised = "none" /\ config = "ok")
        /\ summary # <<>> => writes = 1
        /\ raised # "none" => writes = 0
        /\ interrupted_at \in (Running \ {"summary"}) => writes = 0

\* interrupted between the records, the first one having its abstract, and
\* nothing written
OutputWrittenOnceAtEndWitness ==
    /\ mode = "batch" /\ pc = "interrupted" /\ interrupted_at = "loop"
    /\ idx = 2 /\ N = 2 /\ df_abstract[1] # <<>>
    /\ writes = 0 /\ saved = <<>>

\* the value every cell of an existing result column holds in the input file
ExistingValue == <<"x">>

\* df[output_column] as the table holds it: the column of the file until
\* line 185 has run (absent, <<>>, when the file has no such column)
ResultColumn ==
    IF idx >= 1 THEN df_abstract
    ELSE IF output_column = "existing" THEN [i \in 1..N |-> ExistingValue]
    ELSE IF output_column = "locator" THEN to_csv(df_url)
    ELSE <<>>

\* Claim C30: when the result column already exists in the input table,
\* every value of it is "" before any record is processed; when it is the
\* locator column, every record is skipped as blank, no fetch is issued and
\* the summary reports 0 out of N.
ExistingResultColumnReset ==
    (mode = "batch" /\ output_column # "new" /\ idx >= 1) =>
        /\ Len(ResultColumn) = N
        /\ \A i \in 1..N : i >= idx => ResultColumn[i] = <<>>
        /\ output_column = "locator" =>
              /\ \A i \in 1..N :
                    /\ df_url[i] = Str(<<>>)
                    /\ fetches[i] = 0 /\ delays[i] = 0 /\ outcome[i] = NotAsked
                    /\ df_abstract[i] = <<>>
              /\ pc \notin MidRecord /\ interrupted_at \notin MidRecord
              /\ raised = "none"
              /\ summary # <<>> => summary = <<0, N>>

\* a finished run over two locators with a project code, with the result
\* column named like the locator column
ExistingResultColumnResetWitness ==
    /\ mode = "batch" /\ pc = "done" /\ output_column = "locator"
    /\ csv_url = <<UrlWithCode, UrlWithCode>>
    /\ summary = <<0, 2>> /\ writes = 1

\* process_csv without an interruption, every request returning or failing
NextRun ==
    \/ MainStart \/ MainExit
    \/ ReadCsv \/ CheckColumn \/ InitColumn
    \/ LoopEnd \/ SkipBlank \/ BlankCheckRaises \/ BeginRecord
    \/ Resolve \/ Fetch \/ ExtractFields \/ StoreResult \/ RecordFailed
    \/ SaveCsv \/ Summarize

\* the single thread goes on as long as it has a step to take
SpecRun == Init /\ [][NextRun]_vars /\ WF_vars(NextRun)

\* process_csv has returned or raised (and main(), if it called, may have exited)
Terminated == pc \in {"done", "raised", "exited"}

\* Claim C29, as stated: without interruption process_csv terminates after
\* visiting each record exactly once, by returning or by raising.
TerminatesAfterEveryRecord ==
    <>(Terminated /\ idx = N + 1)

\* process_csv has returned, to main() or to a direct caller
Returned == pc = "done" \/ (pc = "exited" /\ exit_code = 0)

\* Claim C29, amended: without interruption process_csv terminates, by
\* returning or by raising; it never goes past the last record, and when it
\* returns it has visited every record, each fetched at most once.
TerminatesVisitingInOrder ==
    <>[](/\ Terminated
         /\ idx <= N + 1
         /\ Returned => (idx = N + 1 /\ \A i \in 1..N : fetches[i] <= 1))

\* process_csv has returned after two records, each fetched once
TerminatesVisitingInOrderWitness ==
    /\ mode = "batch" /\ pc = "done" /\ caller = "direct"
    /\ N = 2 /\ idx = 3
    /\ fetches[1] = 1 /\ fetches[2] = 1

-----------------------------------------------------------------------------
(* run_scraper.py: the --test mode of main()                               *)

MaxTest == 3
MaxTotal == 3

\* no file of that name / no value yet
Absent == -1

\* len(df.head(n)): the first n rows, all but the last -n rows when n < 0
head(n, total) ==
    IF n >= 0 THEN (IF n < total THEN n ELSE total)
    ELSE (IF total + n > 0 THEN total + n ELSE 0)

\* the command line and the environment of one run: whether --test is given
\* and its value, the number of rows of the input file, and how process_csv
\* ends
RunnerArgs ==
    { a \in [given : BOOLEAN, test : -1..MaxTest, total : 0..MaxTotal,
             fate : {"returns", "raises", "interrupted"}] :
        ~a.given => a.test = 0 }

\* `if args.test:` None and 0 are falsy
TestMode(a) == a.given /\ a.test # 0

InitRunner ==
    /\ mode = "runner"
    /\ input \in RunnerArgs
    /\ output = [pc |-> "try", test_file |-> Absent, input_rows |-> input.total,
                 processed |-> Absent, status |-> Absent]
    /\ called = FALSE
    /\ IdleBatch

\* test mode: df = pd.read_csv(input_path); df.head(args.test).to_csv(test_file)
RunnerWriteTestFile ==
    /\ mode = "runner" /\ output.pc = "try" /\ TestMode(input)
    /\ output' = [output EXCEPT !.pc = "inner",
                                !.test_file = head(input.test, input.total)]
    /\ UNCHANGED <<mode, input, called>>
    /\ UNCHANGED batchVars

\* test mode: scraper.process_csv(test_file, ...) inside the inner try
RunnerProcessTestFile ==
    /\ mode = "runner" /\ output.pc = "inner"
    /\ output' = [output EXCEPT
                     !.pc = "finally",
                     !.processed = IF input.fate = "returns" THEN output.test_file ELSE @]
    /\ called' = TRUE
    /\ UNCHANGED <<mode, input>>
    /\ UNCHANGED batchVars

\* finally: if os.path.exists(test_file): os.remove(test_file)
RunnerRemoveTestFile ==
    /\ mode = "runner" /\ output.pc = "finally"
    /\ output' = [output EXCEPT !.pc = "end", !.test_file = Absent]
    /\ UNCHANGED <<mode, input, called>>
    /\ UNCHANGED batchVars

\* else: scraper.process_csv(input_path, ...)
RunnerProcessAll ==
    /\ mode = "runner" /\ output.pc = "try" /\ ~TestMode(input)
    /\ output' = [output EXCEPT
                     !.pc = "end",
                     !.processed = IF input.fate = "returns" THEN input.total ELSE @]
    /\ called' = TRUE
    /\ UNCHANGED <<mode, input>>
    /\ UNCHANGED batchVars

\* except KeyboardInterrupt / except Exception: sys.exit(1); else the end of main()
RunnerExit ==
    /\ mode = "runner" /\ output.pc = "end"
    /\ output' = [output EXCEPT !.pc = "exited",
                                !.status = IF input.fate = "returns" THEN 0 ELSE 1]
    /\ UNCHANGED <<mode, input, called>>
    /\ UNCHANGED batchVars

NextRunner ==
    \/ RunnerWriteTestFile \/ RunnerProcessTestFile \/ RunnerRemoveTestFile
    \/ RunnerProcessAll \/ RunnerExit

SpecRunner == InitRunner /\ [][NextRunner]_vars

\* Claim C21: for every value N given to --test, exactly the first N records
\* are processed (all of them when N exceeds the total), the input file is
\* left as it was and the temporary test file is gone on every exit path.
TrialRunProcessesFirstN ==
    (mode = "runner" /\ input.given /\ input.test >= 0 /\ output.pc = "exited") =>
        /\ input.fate = "returns" =>
              output.processed = (IF input.test < input.total
                                  THEN input.test ELSE input.total)
        /\ output.input_rows = input.total
        /\ output.test_file = Absent

-----------------------------------------------------------------------------
(* simple_scraper.py: the strategies of SimpleWorldBankScraper.extract_abstract *)

\* len(strategies): the five lambdas of the list
NumStrategies == 5

\* what one strategy() call can lead to: an exception, or a text
Raises == [kind |-> "raises", text |-> <<>>]
Returns(t) == [kind |-> "returns", text |-> t]
StrategyOutcomes ==
    {Raises, Returns(<<>>), Returns(<<"x">>), Returns(<<Y50, "x">>),
     Returns(<<"Abstract", ":", " ", Y50, "x", "x">>)}

\* `result and len(result.strip()) > 50`
Substantial(result) ==
    result.kind = "returns" /\ result.text # <<>>
    /\ TextLen(Strip(result.text)) > MinAbstractLen

InitSimple ==
    /\ mode = "simple"
    /\ input \in [1..NumStrategies -> StrategyOutcomes]
    /\ output = [pc |-> "loop", i |-> 1, abstract_text |-> <<>>, invoked |-> {},
                 result |-> <<>>]
    /\ called = FALSE
    /\ IdleBatch

\* the loop without its break: a later substantial result replaces the text
SimpleTryStrategyNoBreak ==
    /\ mode = "simple" /\ output.pc = "loop" /\ output.i <= NumStrategies
    /\ output' = [output EXCEPT
                     !.invoked = @ \cup {output.i},
                     !.abstract_text = IF Substantial(input[output.i])
                                       THEN input[output.i].text ELSE @,
                     !.i = @ + 1]
    /\ UNCHANGED <<mode, input, called>>
    /\ UNCHANGED batchVars

\* one iteration of `for i, strategy in enumerate(strategies, 1)`: the call,
\* the test of the result, the break; an exception is caught and the loop
\* continues
SimpleTryStrategy ==
    /\ mode = "simple" /\ output.pc = "loop" /\ output.i <= NumStrategies
    /\ output' = [output EXCEPT
                     !.invoked = @ \cup {output.i},
                     !.abstract_text = IF Substantial(input[output.i])
                                       THEN input[output.i].text ELSE @,
                     !.i = @ + 1,
                     !.pc = IF Substantial(input[output.i]) THEN "after" ELSE @]
    /\ UNCHANGED <<mode, input, called>>
    /\ UNCHANGED batchVars

\* the list is exhausted
SimpleLoopEnd ==
    /\ mode = "simple" /\ output.pc = "loop" /\ output.i > NumStrategies
    /\ output' = [output EXCEPT !.pc = "after"]
    /\ UNCHANGED <<mode, input, called>>
    /\ UNCHANGED batchVars

\* if abstract_text: return self._clean_text(abstract_text) else: return ""
SimpleReturn ==
    /\ mode = "simple" /\ output.pc = "after"
    /\ output' = [output EXCEPT
                     !.pc = "returned",
                     !.result = IF output.abstract_text # <<>>
                                THEN _clean_text(output.abstract_text) ELSE <<>>]
    /\ called' = TRUE
    /\ UNCHANGED <<mode, input>>
    /\ UNCHANGED batchVars

NextSimple == SimpleTryStrategy \/ SimpleLoopEnd \/ SimpleReturn

SpecSimple == InitSimple /\ [][NextSimple]_vars

\* strategy k is the first one with a substantial result
FirstSubstantial(k) ==
    /\ Substantial(input[k])
    /\ \A j \in 1..(k - 1) : ~Substantial(input[j])

\* Claim C23: strategy priority.  extract_abstract returns the normalized
\* text of the first strategy whose result is longer than 50 characters and
\* invokes no strategy after it; a strategy that raises gives no candidate
\* and the next one is tried; when no strategy qualifies the result is "".
FirstStrategyWins ==
    (mode = "simple" /\ output.pc = "returned") =>
        /\ \A k \in 1..NumStrategies :
              FirstSubstantial(k) =>
                  /\ output.result = _clean_text(input[k].text)
                  /\ output.invoked = 1..k
        /\ (\A k \in 1..NumStrategies : ~Substantial(input[k])) =>
              /\ output.result = <<>>
              /\ output.invoked = 1..NumStrategies

\* the first strategy raised, the second gave a short text, the third won
\* and a later one would have qualified too
FirstStrategyWinsWitness ==
    /\ mode = "simple" /\ output.pc = "returned"
    /\ input[1] = Raises /\ input[2] = Returns(<<"x">>)
    /\ FirstSubstantial(3) /\ Substantial(input[5])
    /\ input[5] # input[3]
    /\ output.invoked = {1, 2, 3}
    /\ output.result = _clean_text(input[3].text)

-----------------------------------------------------------------------------
(* simple_scraper.py: _find_by_text_content                                *)

MaxHeadings == 2
MaxSiblings == 2
MaxContainers == 1

\* `if len(next_elements) > 5: break`
SiblingCap == 5

\* the siblings that follow a heading: a p with a short, a long or a blank
\* text, or an element that is no p, div or span
Element(name, t) == [name |-> name, text |-> t]
SiblingElements ==
    {Element("p", <<"x">>), Element("p", <<Y50, "x">>), Element("p", <<" ">>),
     Element("ul", <<"x">>)}

\* the texts of the containers whose string holds the phrase
ContainerTexts == {<<"x">>, <<Y50, "x">>}

\* a page as _find_by_text_content sees it for one phrase: for every heading
\* that holds the phrase the siblings up to the next heading, and the
\* containers that hold the phrase
Pages ==
    [headings : SeqsUpTo(SeqsUpTo(SiblingElements, MaxSiblings), MaxHeadings),
     containers : SeqsUpTo(ContainerTexts, MaxContainers)]

\* the while loop over the siblings of one heading: next_elements
RECURSIVE Collect(_, _)
Collect(siblings, next_elements) ==
    IF siblings = <<>> THEN next_elements
    ELSE LET current == Head(siblings)
             collected ==
                 IF current.name \in {"p", "div", "span"} /\ Strip(current.text) # <<>>
                 THEN Append(next_elements, Strip(current.text))
                 ELSE next_elements
         IN  IF Len(collected) > SiblingCap THEN collected
             ELSE Collect(Tail(siblings), collected)

\* ' '.join(next_elements)
RECURSIVE Join(_)
Join(texts) ==
    IF texts = <<>> THEN <<>>
    ELSE IF Len(texts) = 1 THEN Head(texts)
    ELSE Head(texts) \o <<" ">> \o Join(Tail(texts))

\* the loop over the containers: the first text longer than 50, else ""
RECURSIVE FirstLongContainer(_)
FirstLongContainer(containers) ==
    IF containers = <<>> THEN <<>>
    ELSE IF TextLen(Strip(Head(containers))) > MinAbstractLen
         THEN Strip(Head(containers))
         ELSE FirstLongContainer(Tail(containers))

\* the loop over the headings: the first heading with any collected text
\* returns it
RECURSIVE _find_by_text_content(_, _)
_find_by_text_content(headings, containers) ==
    IF headings = <<>> THEN FirstLongContainer(containers)
    ELSE IF Collect(Head(headings), <<>>) # <<>>
         THEN Join(Collect(Head(headings), <<>>))
         ELSE _find_by_text_content(Tail(headings), containers)

InitAnchor ==
    /\ mode = "anchor"
    /\ input \in Pages
    /\ output = <<>>
    /\ called = FALSE
    /\ IdleBatch

CallFindByTextContent ==
    /\ mode = "anchor" /\ ~called
    /\ output' = _find_by_text_content(input.headings, input.containers)
    /\ called' = TRUE
    /\ UNCHANGED <<mode, input>>
    /\ UNCHANGED batchVars

NextAnchor == CallFindByTextContent

SpecAnchor == InitAnchor /\ [][NextAnchor]_vars

\* the page offers a qualifying candidate for the phrase: the texts after
\* some heading, or some container, exceed the threshold
OffersCandidate ==
    \/ \E h \in 1..Len(input.headings) :
          TextLen(Join(Collect(input.headings[h], <<>>))) > MinAbstractLen
    \/ \E c \in 1..Len(input.containers) :
          TextLen(Strip(input.containers[c])) > MinAbstractLen

\* Claim C24: _find_by_text_content yields a text longer than 50 characters
\* whenever some heading with the phrase is followed by sibling text beyond
\* the threshold or some container with the phrase has such a text; a short
\* block after an earlier heading does not prevent it.
AnchorYieldsQualifying ==
    (mode = "anchor" /\ called /\ OffersCandidate) =>
        TextLen(output) > MinAbstractLen

-----------------------------------------------------------------------------
(* world_bank_scraper.py: WorldBankScraper.extract_abstract and the record *)
(* step of its process_csv                                                 *)

MaxSelectors == 2
MaxElements == 2
MaxPatterns == 2

\* element.get_attribute('textContent') of an element a selector matched
ElementTexts == {<<"x">>, <<Y50, "x">>}

\* what one selector of abstract_selectors leads to: find_elements raises,
\* or the texts of the elements it matched
Probe(kind, texts) == [kind |-> kind, texts |-> texts]
ProbeOutcomes ==
    {Probe("raises", <<>>)}
    \cup {Probe("elements", t) : t \in SeqsUpTo(ElementTexts, MaxElements)}

\* what one soup.find of `patterns` gives: None, or an element and its text
Found(t) == [kind |-> "found", text |-> t]
NotFound == [kind |-> "none", text |-> <<>>]
PatternOutcomes == {NotFound, Found(<<" ">>), Found(<<"x">>), Found(<<Y50, "x">>)}

\* one call of extract_abstract: how navigation and the wait end, what the
\* selectors and the page-source patterns give, and self.delay
RenderedCalls ==
    [nav : {"ok", "timeout", "error"},
     probes : SeqsUpTo(ProbeOutcomes, MaxSelectors),
     patterns : SeqsUpTo(PatternOutcomes, MaxPatterns),
     delay : {-1, 0, 1}]

\* `for element in elements`: abstract_text += text + " " for every text
\* longer than 50
RECURSIVE Accumulate(_, _)
Accumulate(texts, abstract_text) ==
    IF texts = <<>> THEN abstract_text
    ELSE Accumulate(Tail(texts),
                    IF Head(texts) # <<>> /\ TextLen(Head(texts)) > MinAbstractLen
                    THEN abstract_text \o Head(texts) \o <<" ">>
                    ELSE abstract_text)

\* the texts of a selector that the loop accepted
Accepted(texts) ==
    {texts[k] : k \in {j \in 1..Len(texts) : TextLen(texts[j]) > MinAbstractLen}}

\* `for pattern in patterns`: abstract_text = pattern.get_text().strip() for
\* every element found, until one is non-empty
RECURSIVE ScanPatterns(_, _)
ScanPatterns(patterns, abstract_text) ==
    IF patterns = <<>> THEN abstract_text
    ELSE IF Head(patterns).kind = "found"
         THEN IF Strip(Head(patterns).text) # <<>>
              THEN Strip(Head(patterns).text)
              ELSE ScanPatterns(Tail(patterns), <<>>)
         ELSE ScanPatterns(Tail(patterns), abstract_text)

\* ' '.join(abstract_text.split()) and the loop over the five prefixes
RenderedCleanText(t) ==
    RemovePrefixes(CollapseWhitespace(t), SubSeq(prefixes_to_remove, 1, 5))

InitRendered ==
    /\ mode = "rendered"
    /\ input \in RenderedCalls
    /\ output = [pc |-> "navigate", i |-> 1, abstract_text |-> <<>>,
                 candidates |-> {}, result |-> <<>>, slept |-> 0,
                 row |-> <<"?">>]
    /\ called = FALSE
    /\ IdleBatch

\* self.driver.get(url) and WebDriverWait(...).until(...): TimeoutException
\* and any other exception end in `return ""`
RenderedNavigate ==
    /\ mode = "rendered" /\ output.pc = "navigate"
    /\ output' = [output EXCEPT !.pc = IF input.nav = "ok" THEN "selectors" ELSE "finally"]
    /\ UNCHANGED <<mode, input, called>>
    /\ UNCHANGED batchVars

\* one iteration of `for selector in abstract_selectors`
RenderedProbe ==
    /\ mode = "rendered" /\ output.pc = "selectors" /\ output.i <= Len(input.probes)
    /\ LET probe == input.probes[output.i]
           text == IF probe.kind = "raises" THEN output.abstract_text
                   ELSE Accumulate(probe.texts, output.abstract_text)
       IN  output' = [output EXCEPT
                         !.abstract_text = text,
                         !.candidates = IF probe.kind = "raises" THEN @
                                        ELSE @ \cup Accepted(probe.texts),
                         !.i = @ + 1,
                         !.pc = IF probe.kind = "elements" /\ probe.texts # <<>>
                                   /\ Strip(text) # <<>>
                                THEN "cleanup" ELSE @]
    /\ UNCHANGED <<mode, input, called>>
    /\ UNCHANGED batchVars

\* the selectors are exhausted: `if not abstract_text.strip():` the loop over
\* the page-source patterns
RenderedFallback ==
    /\ mode = "rendered" /\ output.pc = "selectors" /\ output.i > Len(input.probes)
    /\ LET text == ScanPatterns(input.patterns, output.abstract_text)
       IN  output' = [output EXCEPT
                         !.abstract_text = text,
                         !.candidates = IF text # <<>> THEN {text} ELSE @,
                         !.pc = "cleanup"]
    /\ UNCHANGED <<mode, input, called>>
    /\ UNCHANGED batchVars

\* `if abstract_text:` the clean-up and `return abstract_text`, else `return ""`
RenderedCleanup ==
    /\ mode = "rendered" /\ output.pc = "cleanup"
    /\ output' = [output EXCEPT
                     !.result = IF output.abstract_text # <<>>
                                THEN RenderedCleanText(output.abstract_text) ELSE <<>>,
                     !.pc = "finally"]
    /\ UNCHANGED <<mode, input, called>>
    /\ UNCHANGED batchVars

\* finally: time.sleep(self.delay), which raises ValueError for a negative
\* delay; the exception replaces the value being returned
RenderedSleep ==
    /\ mode = "rendered" /\ output.pc = "finally"
    /\ output' = IF input.delay < 0
                 THEN [output EXCEPT !.pc = "raised"]
                 ELSE [output EXCEPT !.pc = "returned", !.slept = @ + 1]
    /\ called' = TRUE
    /\ UNCHANGED <<mode, input>>
    /\ UNCHANGED batchVars

\* process_csv: df.at[index, output_column] = abstract, or "" in the
\* per-record except; the loop goes on to the next record
RenderedStore ==
    /\ mode = "rendered" /\ output.pc \in {"returned", "raised"}
    /\ output' = [output EXCEPT
                     !.row = IF output.pc = "returned" THEN output.result ELSE <<>>,
                     !.pc = "next"]
    /\ UNCHANGED <<mode, input, called>>
    /\ UNCHANGED batchVars

NextRendered ==
    \/ RenderedNavigate \/ RenderedProbe \/ RenderedFallback
    \/ RenderedCleanup \/ RenderedSleep \/ RenderedStore

SpecRendered == InitRendered /\ [][NextRendered]_vars

\* Claim C25: in the rendered variant the selector probes and the
\* page-source fallback accept a candidate only if it is longer than 50
\* characters, so every non-empty abstract returned comes from such
\* candidates.
RenderedCandidatesSubstantial ==
    (mode = "rendered" /\ output.pc = "returned" /\ output.result # <<>>) =>
        /\ output.candidates # {}
        /\ \A c \in output.candidates : TextLen(c) > MinAbstractLen

\* Claim C26: when navigation or the wait times out, or the driver raises,
\* extract_abstract returns "" for the record, the delay is still applied
\* and process_csv goes on with the next record.
RenderedFailureGivesEmpty ==
    (mode = "rendered" /\ input.nav # "ok" /\ called) =>
        /\ output.pc \in {"returned", "next"}
        /\ output.result = <<>>
        /\ output.slept = 1
        /\ output.pc = "next" => output.row = <<>>

====
